---- MODULE Spec2Model ----
(***************************************************************************)
(* Model of autogrid.py: the GPS loop that maintains the current grid and  *)
(* the detection/dispatch loop that pushes it to WSJT-X (UDP) and JS8Call  *)
(* (TCP).  Coordinates are integers in hundredths of a degree; time is in  *)
(* seconds.                                                                *)
(***************************************************************************)
EXTENDS Integers, Sequences, FiniteSets, TLC

\* ------------------------------------------------------------------ bounds
MaxTime == 60
\* the time from which the GPS delivers no new fix (self-healing runs)
StableAt == 40
\* the time up to which the two threads are followed step by step
ThreadTime == 40
\* the time up to which a run that is shut down is followed
LifeTime == 20

\* --------------------------------------------------------------- constants
\* 0xadbccbda as its four big-endian bytes
MAGIC_NUMBER == <<173, 188, 203, 218>>
SCHEMA_VERSION == 3
\* the packet type of a location change
LocationType == 11
detection_timeout == 30
max_retries == 3
precision == 4
HeaderLen == 16

None == "None"
NoTime == -1
\* current_position before the first fix: a position is <<lat, lon>>
NoPosition == <<>>
NoPacket == [kind |-> "timeout"]
NoSend == [app |-> "none"]
NoCall == [fn |-> "none"]
\* last_utc_time before any time was parsed, and what _parse_nmea_time
\* returns when it fails
NoUtc == <<>>

\* ------------------------------------------------------------ GridConverter
\* an alphabet that ends with the last field letter of the locator system
upper_AtoR == <<"A","B","C","D","E","F","G","H","I","J","K","L",
                "M","N","O","P","Q","R">>
upper == <<"A","B","C","D","E","F","G","H","I","J","K","L",
           "M","N","O","P","Q","R","S","T","U","V","W","X">>
lower == <<"a","b","c","d","e","f","g","h","i","j","k","l",
           "m","n","o","p","q","r","s","t","u","v","w","x">>

\* a range check that forgets the longitude
InRange_LatOnly(lat, lon) == -9000 <= lat /\ lat <= 9000

\* the range check at the head of lat_lon_to_grid (raises ValueError)
InRange(lat, lon) ==
    /\ -9000 <= lat /\ lat <= 9000
    /\ -18000 <= lon /\ lon <= 18000

\* the exceptions of the converter: the range check, and an index past the
\* end of an alphabet
ValueError == [kind |-> "raised", exc |-> "ValueError"]
IndexError == [kind |-> "raised", exc |-> "IndexError"]

\* a converter that rounds to the nearest cell
int_trunc_Round(n, d) == (2 * n + d) \div (2 * d)

\* int(n / d): every operand is non-negative after the shift, so \div is
\* the same truncation
int_trunc(n, d) == n \div d

\* the indices lat_lon_to_grid computes (hundredths of a degree in,
\* hundredths of a minute for the remainders)
grid_indices(lat, lon) ==
    LET adj_lat == lat + 9000
        adj_lon == lon + 18000
        adj_lat_remainder == (adj_lat - int_trunc(adj_lat, 100) * 100) * 60
        adj_lon_remainder == (adj_lon - int_trunc(adj_lon, 200) * 200) * 60
    IN  [lon_sq |-> int_trunc(adj_lon, 2000),
         lat_sq |-> int_trunc(adj_lat, 1000),
         lon_field |-> int_trunc(adj_lon, 200) % 10,
         lat_field |-> int_trunc(adj_lat, 100) % 10,
         lon_subsq |-> int_trunc(adj_lon_remainder, 500),
         lat_subsq |-> int_trunc(adj_lat_remainder, 250)]

\* alphabet[i] with Python's index
Letter(alphabet, i) ==
    IF i \in 0..(Len(alphabet) - 1) THEN alphabet[i + 1] ELSE "IndexError"

\* the characters of the grid; the subsquare is computed at precision 6 only
grid_chars(lat, lon, prec) ==
    LET ix == grid_indices(lat, lon)
    IN  <<Letter(upper, ix.lon_sq), Letter(upper, ix.lat_sq),
          ToString(ix.lon_field), ToString(ix.lat_field)>>
        \o IF prec = 6
           THEN <<Letter(lower, ix.lon_subsq), Letter(lower, ix.lat_subsq)>>
           ELSE <<>>

\* grid_lon_sq + grid_lat_sq + ...
RECURSIVE concat(_)
concat(chars) == IF chars = <<>> THEN "" ELSE chars[1] \o concat(Tail(chars))

\* lat_lon_to_grid of a converter built with precision prec: the exception,
\* or the grid as its characters and as text
to_grid(lat, lon, prec) ==
    IF ~InRange(lat, lon) THEN ValueError
    ELSE LET chars == grid_chars(lat, lon, prec)
         IN  IF \E i \in 1..Len(chars) : chars[i] = "IndexError"
             THEN IndexError
             ELSE [kind |-> "grid", chars |-> chars, text |-> concat(chars)]

\* lat_lon_to_grid of the program's converter for an in-range position
lat_lon_to_grid(lat, lon) == to_grid(lat, lon, precision).text

\* ------------------------------------------------------------------ inputs
\* GPS fixes delivered to _update_position (hundredths of a degree); the
\* last one is out of range
Positions == { <<0, 0>>, <<4812, 1152>>, <<9100, 0>> }

Addrs == {"a1", "a2"}
Delays == {20, 40}

\* Datagrams the UDP socket can yield.  size is len(data); magic, schema,
\* pkt_type and id_len are the four unpacked header words; id is the text
\* of the id bytes, or "badutf8" when they do not decode.
Pkt(size, magic, schema, pkt_type, id_len, id, addr) ==
    [kind |-> "data", size |-> size, magic |-> magic, schema |-> schema,
     pkt_type |-> pkt_type, id_len |-> id_len, id |-> id, addr |-> addr]

Packets ==
    { Pkt(26, MAGIC_NUMBER, 2, 0, 6, "WSJT-X", "a1"),     \* heartbeat
      Pkt(26, MAGIC_NUMBER, 3, 0, 6, "WSJT-Y", "a2"),     \* heartbeat, other instance
      Pkt(40, MAGIC_NUMBER, 2, 1, 6, "WSJT-X", "a2"),     \* status
      Pkt(16, MAGIC_NUMBER, 2, 0, 0, "", "a1"),           \* heartbeat without id
      Pkt(18, MAGIC_NUMBER, 2, 0, 6, "WS", "a2"),         \* declared id longer than buffer
      Pkt(26, MAGIC_NUMBER, 2, 0, 6, "badutf8", "a2"),    \* id bytes not UTF-8
      Pkt(40, MAGIC_NUMBER, 2, 2, 6, "WSJT-X", "a2"),     \* decode packet
      Pkt(26, <<18, 52, 86, 120>>, 2, 0, 6, "WSJT-X", "a2"),        \* wrong magic
      Pkt(12, MAGIC_NUMBER, 2, 0, 0, "", "a2") }          \* shorter than the header

WsjtxOutcomes == {"sent", "error"}
Js8Outcomes == {"refused", "send_error", "response", "timeout", "closed", "recv_error"}

VARIABLES
    \* GPSManager; gps_pc is where _gps_worker stands
    current_position, current_grid, gps_pc,
    \* ApplicationCommunicator
    wsjtx_id, wsjtx_last_addr, wsjtx_last_packet_time,
    wsjtx_last_grid, js8call_last_grid,
    wsjtx_pending_grid_update, pending_grid_value,
    \* AutoGrid
    wsjtx_detected, js8call_detected,
    prev_wsjtx_detected, prev_js8call_detected,
    \* _main_loop / check_heartbeats frame
    pc, now, rx, procs, wsjtx_running, js8call_running,
    loop_grid, upd_grid, attempt,
    \* observation of the network and of the cycle
    wire, cycle, heard,
    \* NMEAParser.last_utc_time, and the call of a converter, parser or
    \* encoder under study with what it returned
    last_utc_time, call, ret,
    \* AutoGrid.running, GPSManager.running, where AutoGrid.stop stands, and
    \* the two listening sockets of ApplicationCommunicator
    running, gps_running, stop_pc, socket

gpsVars == <<current_position, current_grid, gps_pc>>
commVars == <<wsjtx_id, wsjtx_last_addr, wsjtx_last_packet_time,
              wsjtx_last_grid, js8call_last_grid,
              wsjtx_pending_grid_update, pending_grid_value>>
appVars == <<wsjtx_detected, js8call_detected,
             prev_wsjtx_detected, prev_js8call_detected>>
frameVars == <<pc, now, rx, procs, wsjtx_running, js8call_running,
               loop_grid, upd_grid, attempt>>
fnVars == <<last_utc_time, call, ret>>
lifeVars == <<running, gps_running, stop_pc, socket>>
restVars == <<fnVars, lifeVars>>
vars == <<gpsVars, commVars, appVars, frameVars, wire, cycle, heard, restVars>>

\* --------------------------------------------------------------------- Init
NewCycle == [edge_wsjtx |-> FALSE, edge_js8call |-> FALSE, tried |-> {},
             n_wsjtx |-> 0, n_js8call |-> 0,
             ok_wsjtx |-> FALSE, ok_js8call |-> FALSE]

\* the objects as their constructors leave them, the GPS thread started
Constructed ==
    /\ current_position = NoPosition
    /\ current_grid = None
    /\ gps_pc = "poll"
    /\ wsjtx_id = None
    /\ wsjtx_last_addr = None
    /\ wsjtx_last_packet_time = NoTime
    /\ wsjtx_last_grid = None
    /\ js8call_last_grid = None
    /\ wsjtx_pending_grid_update = FALSE
    /\ pending_grid_value = None
    /\ wsjtx_detected = FALSE
    /\ js8call_detected = FALSE
    /\ prev_wsjtx_detected = FALSE
    /\ prev_js8call_detected = FALSE
    /\ now = 0
    /\ rx = NoPacket
    /\ procs = [wsjtx |-> FALSE, js8call |-> FALSE]
    /\ wsjtx_running = FALSE
    /\ js8call_running = FALSE
    /\ loop_grid = None
    /\ upd_grid = None
    /\ attempt = 0
    /\ wire = NoSend
    /\ cycle = NewCycle
    /\ heard = [addr |-> None, id |-> None]
    /\ last_utc_time = NoUtc
    /\ call = NoCall
    /\ ret = None
    /\ gps_running = TRUE
    /\ stop_pc = "idle"

\* both sockets bound by ApplicationCommunicator.start
BothBound == [wsjtx |-> "bound", js8call |-> "bound"]

\* the program at the head of _main_loop after a start without failure
Init ==
    /\ Constructed
    /\ pc = "recv"
    /\ running = TRUE
    /\ socket = BothBound

\* ----------------------------------------------------------------- GPS loop
\* an update that forgets the grid when the conversion fails
new_grid_ClearsOnError(pos, old_grid) ==
    IF InRange(pos[1], pos[2]) THEN lat_lon_to_grid(pos[1], pos[2]) ELSE None

\* current_grid after _update_position: new_grid when the conversion
\* returns (equal or not to the old one), the old grid when it raises
new_grid(pos, old_grid) ==
    IF InRange(pos[1], pos[2]) THEN lat_lon_to_grid(pos[1], pos[2])
    ELSE old_grid

\* GPSManager._update_position: the position is stored first; the grid
\* conversion raises for an out-of-range fix and the grid is then left alone
UpdatePosition ==
    \E pos \in Positions :
        /\ current_position' = pos
        /\ current_grid' = new_grid(pos, current_grid)
        /\ UNCHANGED <<gps_pc, commVars, appVars, frameVars, wire, cycle, heard, restVars>>

\* ------------------------------------------------- packet decode predicates
\* a decoder that takes any 16-byte header for a WSJT-X header
Accepted_NoMagic(p) ==
    /\ p.kind = "data"
    /\ p.size >= HeaderLen

\* a decoder that accepts only the schema it writes itself
Accepted_OwnSchemaOnly(p) ==
    /\ p.kind = "data"
    /\ p.size >= HeaderLen
    /\ p.magic = MAGIC_NUMBER
    /\ p.schema = 3

\* len(data) >= 16 and the magic word matches
Accepted(p) ==
    /\ p.kind = "data"
    /\ p.size >= HeaderLen
    /\ p.magic = MAGIC_NUMBER

\* id_len > 0 and len(data) >= 16 + id_len
HasId(p) == p.id_len > 0 /\ p.size >= HeaderLen + p.id_len

\* data[16:16+id_len].decode('utf-8') raises UnicodeDecodeError
DecodeFails(p) == HasId(p) /\ p.id = "badutf8"

\* a decoder that forgets the packet-type test
Alive_AnyType(p) == Accepted(p) /\ ~DecodeFails(p)

\* the heartbeat / status branches are reached
Alive(p) == Accepted(p) /\ ~DecodeFails(p) /\ p.pkt_type \in {0, 1}

\* an id taken from every heartbeat, whatever follows its header
LearnsId_AnyHeartbeat(p) == Accepted(p) /\ ~DecodeFails(p) /\ p.pkt_type = 0

\* the trailing "if pkt_type == 0 and id_len > 0 ..." assignment is reached
LearnsId(p) == Accepted(p) /\ ~DecodeFails(p) /\ p.pkt_type = 0 /\ HasId(p)

\* ------------------------------------------------------------------- sends
\* a sender that records the grid before the datagram has gone out
send_wsjtx_grid_update_EarlyStore(grid, id, addr, last, outcome) ==
    IF id = None \/ addr = None
    THEN [ok |-> FALSE, outcome |-> "refused", last |-> last]
    ELSE [ok |-> outcome = "sent", outcome |-> outcome, last |-> grid]

\* a sender that relies on the encoder's default id when none was learned
send_wsjtx_grid_update_NoIdGuard(grid, id, addr, last, outcome) ==
    IF addr = None
    THEN [ok |-> FALSE, outcome |-> "refused", last |-> last]
    ELSE IF outcome = "sent"
         THEN [ok |-> TRUE, outcome |-> "sent", last |-> grid]
         ELSE [ok |-> FALSE, outcome |-> "error", last |-> last]

\* send_wsjtx_grid_update: refused when not addressable, otherwise the
\* datagram built from the stored id goes to the stored address
send_wsjtx_grid_update(grid, id, addr, last, outcome) ==
    IF id = None \/ addr = None
    THEN [ok |-> FALSE, outcome |-> "refused", last |-> last]
    ELSE IF outcome = "sent"
         THEN [ok |-> TRUE, outcome |-> "sent", last |-> grid]
         ELSE [ok |-> FALSE, outcome |-> "error", last |-> last]

\* a sender that reports success without recording the grid it delivered
send_js8call_grid_update_NoStore(grid, last, outcome) ==
    [ok |-> outcome \in {"response", "timeout", "closed"},
     outcome |-> outcome, last |-> last]

\* send_js8call_grid_update: success needs connect and send to succeed and
\* recv to return data, return nothing, or time out
send_js8call_grid_update(grid, last, outcome) ==
    IF outcome \in {"response", "timeout", "closed"}
    THEN [ok |-> TRUE, outcome |-> outcome, last |-> grid]
    ELSE [ok |-> FALSE, outcome |-> outcome, last |-> last]

\* a pending update that stays armed until a send of it succeeds
send_pending_wsjtx_grid_update_KeepOnFailure(value, id, addr, last, outcome) ==
    LET r == send_wsjtx_grid_update(value, id, addr, last, outcome)
    IN  [ok |-> r.ok, last |-> r.last, armed |-> ~r.ok,
         value |-> IF r.ok THEN None ELSE value]

\* _send_pending_wsjtx_grid_update: one send of the stored value, then the
\* flag and the value are cleared whatever the send returned
send_pending_wsjtx_grid_update(value, id, addr, last, outcome) ==
    LET r == send_wsjtx_grid_update(value, id, addr, last, outcome)
    IN  [ok |-> r.ok, last |-> r.last, armed |-> FALSE, value |-> None]

\* JS8Call is found whenever a process check finds it, however it has been
\* found once
is_js8call_process_running_Sticky(p) == p.js8call \/ js8call_detected

\* is_js8call_process_running, p being what the process table holds
is_js8call_process_running(p) == p.js8call

WireWsjtx(path, grid, id, addr, r) ==
    [app |-> "wsjtx", path |-> path, grid |-> grid, ok |-> r.ok,
     addr |-> addr, id |-> id]

WireJs8(path, grid, r) ==
    [app |-> "js8call", path |-> path, grid |-> grid, ok |-> r.ok,
     addr |-> None, id |-> None]

Tried(app, path, grid) == [app |-> app, path |-> path, grid |-> grid]

\* --------------------------------------------------------- check_heartbeats
\* now = time.time(); data, addr = self.socket.recvfrom(1024).  The answers
\* the two process checks will give at the end of this call are drawn here.
RecvAt(t, received) ==
    /\ pc = "recv"
    /\ now' = t
    /\ rx' \in received
    /\ procs' \in [wsjtx : BOOLEAN, js8call : BOOLEAN]
    /\ pc' = "process"
    /\ wire' = NoSend
    /\ cycle' = NewCycle
    /\ loop_grid' = None
    /\ upd_grid' = None
    /\ UNCHANGED <<gpsVars, commVars, appVars, wsjtx_running, js8call_running,
                   attempt, heard, restVars>>

Recv ==
    \E d \in Delays :
        /\ now + d <= MaxTime
        /\ RecvAt(now + d, Packets \cup {NoPacket})

\* a detector without the process gate
Detected_NoProcessGate(seen, last_time, t, proc_running) ==
    /\ seen
    /\ ~(last_time # NoTime /\ t - last_time > detection_timeout)

\* the 30 s timeout and the process gate at the end of check_heartbeats
Detected(seen, last_time, t, proc_running) ==
    /\ seen
    /\ ~(last_time # NoTime /\ t - last_time > detection_timeout)
    /\ proc_running

\* the rest of check_heartbeats, _send_pending_wsjtx_grid_update included;
\* rx keeps the datagram until the main loop has the answer
Process ==
    /\ pc = "process"
    /\ LET alive == Alive(rx)
           fire == alive /\ wsjtx_pending_grid_update /\ pending_grid_value # None
           addr == IF alive THEN rx.addr ELSE wsjtx_last_addr
           time == IF alive THEN now ELSE wsjtx_last_packet_time
       IN  /\ wsjtx_last_addr' = addr
           /\ wsjtx_last_packet_time' = time
           /\ IF fire
              THEN \E o \in WsjtxOutcomes :
                     LET r == send_pending_wsjtx_grid_update(
                                  pending_grid_value, wsjtx_id, addr,
                                  wsjtx_last_grid, o)
                     IN  /\ wsjtx_last_grid' = r.last
                         /\ wire' = WireWsjtx("pending", pending_grid_value,
                                              wsjtx_id, addr, r)
                         /\ cycle' = [cycle EXCEPT
                                !.tried = @ \cup {Tried("wsjtx", "pending",
                                                         pending_grid_value)},
                                !.n_wsjtx = @ + 1,
                                !.ok_wsjtx = @ \/ r.ok]
                         /\ wsjtx_pending_grid_update' = r.armed
                         /\ pending_grid_value' = r.value
              ELSE /\ wire' = NoSend
                   /\ UNCHANGED <<wsjtx_last_grid, cycle,
                                  wsjtx_pending_grid_update, pending_grid_value>>
           /\ wsjtx_id' = IF LearnsId(rx) THEN rx.id ELSE wsjtx_id
           /\ wsjtx_running' = Detected(alive, time, now, procs.wsjtx)
           /\ js8call_running' = is_js8call_process_running(procs)
           /\ heard' = [addr |-> IF rx.kind = "data" /\ rx.magic = MAGIC_NUMBER
                                    /\ rx.pkt_type \in {0, 1}
                                 THEN rx.addr ELSE heard.addr,
                        id |-> IF rx.kind = "data" /\ rx.magic = MAGIC_NUMBER
                                  /\ rx.pkt_type = 0 /\ HasId(rx)
                                  /\ rx.id # "badutf8"
                               THEN rx.id ELSE heard.id]
    /\ procs' = [wsjtx |-> FALSE, js8call |-> FALSE]
    /\ pc' = "dispatch"
    /\ UNCHANGED <<gpsVars, js8call_last_grid, appVars, now, rx,
                   loop_grid, upd_grid, attempt, restVars>>

\* ------------------------------------------------------------- _main_loop
\* an edge send that is skipped when JS8Call already holds the grid
EdgeNext_SkipWhenEqual(grid, edge_j) ==
    IF grid # None /\ edge_j /\ grid # js8call_last_grid
    THEN "js8_edge_send" ELSE "state"

\* an edge send that does not ask whether a grid is known
EdgeNext_NoGridGate(grid, edge_j) ==
    IF edge_j THEN "js8_edge_send" ELSE "state"

\* "if js8call_running and not self.prev_js8call_detected" under "if current_grid"
EdgeNext(grid, edge_j) ==
    IF grid # None /\ edge_j THEN "js8_edge_send" ELSE "state"

\* current_grid = get_current_grid(); arm the pending update on a WSJT-X
\* edge, start the JS8Call send on a JS8Call edge
Dispatch ==
    /\ pc = "dispatch"
    /\ LET grid == current_grid
           edge_w == wsjtx_running /\ ~prev_wsjtx_detected
           edge_j == js8call_running /\ ~prev_js8call_detected
       IN  /\ loop_grid' = grid
           /\ cycle' = [cycle EXCEPT !.edge_wsjtx = edge_w, !.edge_js8call = edge_j]
           /\ IF grid # None /\ edge_w
              THEN /\ wsjtx_pending_grid_update' = TRUE
                   /\ pending_grid_value' = grid
              ELSE UNCHANGED <<wsjtx_pending_grid_update, pending_grid_value>>
           /\ pc' = EdgeNext(grid, edge_j)
    /\ attempt' = 0
    /\ wire' = NoSend
    /\ rx' = NoPacket
    /\ UNCHANGED <<gpsVars, wsjtx_id, wsjtx_last_addr, wsjtx_last_packet_time,
                   wsjtx_last_grid, js8call_last_grid, appVars, now, procs,
                   wsjtx_running, js8call_running, upd_grid, heard, restVars>>

\* where a retry loop goes after an attempt: out on success or when the
\* attempts are used up, otherwise round again
RetryNext(ok, here, out) ==
    IF ok \/ attempt + 1 >= max_retries THEN out ELSE here

\* one iteration of _send_js8call_grid_update_with_retry
Js8Attempt(path, grid, here, out) ==
    \E o \in Js8Outcomes :
        LET r == send_js8call_grid_update(grid, js8call_last_grid, o)
        IN  /\ js8call_last_grid' = r.last
            /\ wire' = WireJs8(path, grid, r)
            /\ cycle' = [cycle EXCEPT
                   !.tried = @ \cup {Tried("js8call", path, grid)},
                   !.n_js8call = @ + 1,
                   !.ok_js8call = @ \/ r.ok]
            /\ pc' = RetryNext(r.ok, here, out)
            /\ attempt' = IF pc' = here THEN attempt + 1 ELSE 0

\* the send to JS8Call made when it was just (re)detected
Js8EdgeSend ==
    /\ pc = "js8_edge_send"
    /\ Js8Attempt("edge", loop_grid, "js8_edge_send", "state")
    /\ UNCHANGED <<gpsVars, wsjtx_id, wsjtx_last_addr, wsjtx_last_packet_time,
                   wsjtx_last_grid, wsjtx_pending_grid_update, pending_grid_value,
                   appVars, now, rx, procs, wsjtx_running, js8call_running,
                   loop_grid, upd_grid, heard, restVars>>

\* "Update detection state"
UpdateDetectionState ==
    /\ pc = "state"
    /\ prev_wsjtx_detected' = wsjtx_running
    /\ prev_js8call_detected' = js8call_running
    /\ wsjtx_detected' = wsjtx_running
    /\ js8call_detected' = js8call_running
    /\ pc' = "update"
    /\ wire' = NoSend
    /\ UNCHANGED <<gpsVars, commVars, now, rx, procs, wsjtx_running,
                   js8call_running, loop_grid, upd_grid, attempt, cycle, heard, restVars>>

\* ----------------------------------------------------- _update_grid_squares
\* a JS8Call comparison made against the WSJT-X record
AfterWsjtx_WrongLast(grid, last_j) ==
    IF js8call_detected /\ grid # wsjtx_last_grid THEN "js8_send" ELSE "recv"

\* the JS8Call comparison that follows the WSJT-X part
AfterWsjtx(grid, last_j) ==
    IF js8call_detected /\ grid # last_j THEN "js8_send" ELSE "recv"

UpdateGridSquares ==
    /\ pc = "update"
    /\ upd_grid' = current_grid
    /\ pc' = IF current_grid = None THEN "recv"
             ELSE IF wsjtx_detected /\ current_grid # wsjtx_last_grid
                  THEN "wsjtx_send"
                  ELSE AfterWsjtx(current_grid, js8call_last_grid)
    /\ attempt' = 0
    /\ wire' = NoSend
    /\ UNCHANGED <<gpsVars, commVars, appVars, now, rx, procs, wsjtx_running,
                   js8call_running, loop_grid, cycle, heard, restVars>>

\* one iteration of _send_wsjtx_grid_update_with_retry
WsjtxSend ==
    /\ pc = "wsjtx_send"
    /\ \E o \in WsjtxOutcomes :
        LET r == send_wsjtx_grid_update(upd_grid, wsjtx_id, wsjtx_last_addr,
                                        wsjtx_last_grid, o)
        IN  /\ wsjtx_last_grid' = r.last
            /\ wire' = WireWsjtx("steady", upd_grid, wsjtx_id, wsjtx_last_addr, r)
            /\ cycle' = [cycle EXCEPT
                   !.tried = @ \cup {Tried("wsjtx", "steady", upd_grid)},
                   !.n_wsjtx = @ + 1,
                   !.ok_wsjtx = @ \/ r.ok]
            /\ pc' = RetryNext(r.ok, "wsjtx_send",
                               AfterWsjtx(upd_grid, js8call_last_grid))
            /\ attempt' = IF pc' = "wsjtx_send" THEN attempt + 1 ELSE 0
    /\ UNCHANGED <<gpsVars, wsjtx_id, wsjtx_last_addr, wsjtx_last_packet_time,
                   js8call_last_grid, wsjtx_pending_grid_update, pending_grid_value,
                   appVars, now, rx, procs, wsjtx_running, js8call_running,
                   loop_grid, upd_grid, heard, restVars>>

Js8Send ==
    /\ pc = "js8_send"
    /\ Js8Attempt("steady", upd_grid, "js8_send", "recv")
    /\ UNCHANGED <<gpsVars, wsjtx_id, wsjtx_last_addr, wsjtx_last_packet_time,
                   wsjtx_last_grid, wsjtx_pending_grid_update, pending_grid_value,
                   appVars, now, rx, procs, wsjtx_running, js8call_running,
                   loop_grid, upd_grid, heard, restVars>>

Next ==
    \/ UpdatePosition
    \/ Recv
    \/ Process
    \/ Dispatch
    \/ Js8EdgeSend
    \/ UpdateDetectionState
    \/ UpdateGridSquares
    \/ WsjtxSend
    \/ Js8Send

Spec == Init /\ [][Next]_vars

\* ------------------------------------------------------- self-healing runs
\* Runs without an end, for what the loop does in the long run: the GPS
\* delivers fixes until StableAt and none afterwards, and the clock stops
\* advancing there.  The time stamp check_heartbeats compares with now is
\* taken in the same call or belongs to a call that saw no packet, so the
\* stopped clock changes no outcome of the timeout test.
LivePackets ==
    { Pkt(26, MAGIC_NUMBER, 2, 0, 6, "WSJT-X", "a1"),
      Pkt(40, MAGIC_NUMBER, 2, 1, 6, "WSJT-X", "a2") }

GpsUntilStable == now < StableAt /\ UpdatePosition

RecvLive ==
    \E d \in Delays :
        RecvAt(IF now + d <= StableAt THEN now + d ELSE StableAt,
               LivePackets \cup {NoPacket})

MainLoopLive ==
    \/ RecvLive
    \/ Process
    \/ Dispatch
    \/ Js8EdgeSend
    \/ UpdateDetectionState
    \/ UpdateGridSquares
    \/ WsjtxSend
    \/ Js8Send

NextLive == GpsUntilStable \/ MainLoopLive

\* The main thread keeps running.  Over and over a cycle finds WSJT-X's
\* process running and receives a heartbeat with a session id, a cycle finds
\* JS8Call's process running, and a send to either application succeeds
\* when sends to it are attempted again and again.
\* Every step of the main thread changes its position.
loopPos == <<pc, attempt>>

LiveFairness ==
    /\ WF_loopPos(MainLoopLive)
    /\ SF_loopPos(RecvLive /\ LearnsId(rx') /\ procs'.wsjtx)
    /\ SF_loopPos(RecvLive /\ procs'.js8call)
    /\ SF_loopPos(WsjtxSend /\ wire'.ok)
    /\ SF_loopPos(Js8Send /\ wire'.ok)

LiveSpec == Init /\ [][NextLive]_vars /\ LiveFairness

\* ------------------------------------------------------------ the threads
\* The GPS thread (_gps_worker) followed step by step next to the main
\* thread: "poll" is the head of its loop, "read" the handler waiting for
\* its source, "sleep" the wait for the next update, "backoff" the wait
\* after an exception that reached the worker.
AllOthers == <<commVars, appVars, frameVars, wire, cycle, heard, restVars>>

\* how a handler call can end: a position was parsed, no sentence gave a
\* position, the connection or the read failed, an exception left the handler
GpsOutcomes == {"fix", "no_position", "transport_error", "raises"}

\* a socket shared with the heartbeat listener: no read while it receives
GpsPoll_SharedSocket ==
    /\ gps_pc = "poll"
    /\ pc # "recv"
    /\ gps_pc' = "read"
    /\ UNCHANGED <<current_position, current_grid, AllOthers>>

\* "while self.running:" and the call of the handler, which opens its own
\* socket with its own timeout
GpsPoll ==
    /\ gps_pc = "poll"
    /\ gps_pc' = "read"
    /\ UNCHANGED <<current_position, current_grid, AllOthers>>

\* a worker without its catch-all
GpsAfter_Uncaught(outcome) ==
    IF outcome = "raises" THEN "dead" ELSE "sleep"

\* the handlers catch their own errors and return; what they let through is
\* caught by the worker, which waits and goes on
GpsAfter(outcome) ==
    IF outcome = "raises" THEN "backoff" ELSE "sleep"

\* the handler returns; a parsed position goes to _update_position, whose
\* range error is caught by the handler
GpsRead ==
    /\ gps_pc = "read"
    /\ \E o \in GpsOutcomes :
        /\ \/ /\ o = "fix"
              /\ \E pos \in Positions :
                    /\ current_position' = pos
                    /\ current_grid' = new_grid(pos, current_grid)
           \/ /\ o # "fix"
              /\ UNCHANGED <<current_position, current_grid>>
        /\ gps_pc' = GpsAfter(o)
    /\ UNCHANGED AllOthers

\* a worker that resets the grid acknowledged by JS8Call when it wakes
GpsWake_ForgetsAck ==
    /\ gps_pc \in {"sleep", "backoff"}
    /\ gps_pc' = "poll"
    /\ js8call_last_grid' = None
    /\ UNCHANGED <<current_position, current_grid, wsjtx_id, wsjtx_last_addr,
                   wsjtx_last_packet_time, wsjtx_last_grid,
                   wsjtx_pending_grid_update, pending_grid_value, appVars,
                   frameVars, wire, cycle, heard, restVars>>

\* time.sleep(update_interval), or time.sleep(10) after an exception, is over
GpsWake ==
    /\ gps_pc \in {"sleep", "backoff"}
    /\ gps_pc' = "poll"
    /\ UNCHANGED <<current_position, current_grid, AllOthers>>

GpsThread == GpsPoll \/ GpsRead \/ GpsWake

\* recvfrom raised something other than a timeout
RecvError == [kind |-> "error"]

\* what the main thread receives here: the heartbeats from a1 and the
\* datagram whose id does not decode, besides a timeout and a socket error
ThreadPackets == { p \in Packets : p.addr = "a1" \/ p.id = "badutf8" }

RecvThread ==
    \E d \in Delays :
        /\ now + d <= ThreadTime
        /\ RecvAt(now + d, ThreadPackets \cup {NoPacket, RecvError})

MainLoopThread ==
    \/ RecvThread
    \/ Process
    \/ Dispatch
    \/ Js8EdgeSend
    \/ UpdateDetectionState
    \/ UpdateGridSquares
    \/ WsjtxSend
    \/ Js8Send

NextThread == GpsThread \/ MainLoopThread

ThreadSpec == Init /\ [][NextThread]_vars

\* ------------------------------------------------------------- the shutdown
\* The two loops with their "while self.running" tests, the KeyboardInterrupt
\* that ends _main_loop, stop() called from main()'s finally clause, and the
\* end of the process, which ends the daemon thread wherever it stands.
\* stop_pc: "idle" before stop(), "joining" after the flags are cleared,
\* "closing" after the join returned, "done" after stop(), "ended" after
\* main() returned.

\* "while self.running:" of _gps_worker: the next iteration, or the end
GpsHead ==
    /\ gps_pc = "poll"
    /\ IF gps_running
       THEN GpsPoll
       ELSE /\ gps_pc' = "exited"
            /\ UNCHANGED <<current_position, current_grid, AllOthers>>

GpsLife == stop_pc # "ended" /\ (GpsHead \/ GpsRead \/ GpsWake)

\* what check_heartbeats gets from self.socket: datagrams or a timeout on
\* the bound socket, an error on a socket that was never bound, nothing
\* when there is no socket ("if self.socket:")
Receivable ==
    IF socket.wsjtx = "bound" THEN ThreadPackets \cup {NoPacket}
    ELSE IF socket.wsjtx = "unbound" THEN {RecvError}
    ELSE {NoPacket}

\* "while self.running:" of _main_loop: the next iteration, or the end
RecvLife ==
    /\ pc = "recv"
    /\ IF running
       THEN \E d \in Delays :
               /\ now + d <= LifeTime
               /\ RecvAt(now + d, Receivable)
       ELSE /\ pc' = "exited"
            /\ UNCHANGED <<gpsVars, commVars, appVars, now, rx, procs,
                           wsjtx_running, js8call_running, loop_grid, upd_grid,
                           attempt, wire, cycle, heard, restVars>>

MainLoopLife ==
    /\ stop_pc # "ended"
    /\ \/ RecvLife
       \/ Process
       \/ Dispatch
       \/ Js8EdgeSend
       \/ UpdateDetectionState
       \/ UpdateGridSquares
       \/ WsjtxSend
       \/ Js8Send

\* KeyboardInterrupt reaches the main thread inside _main_loop: the loop is
\* left by "break" (or the exception leaves start()), wherever it stood
Interrupt ==
    /\ pc # "exited"
    /\ stop_pc = "idle"
    /\ pc' = "exited"
    /\ UNCHANGED <<gpsVars, commVars, appVars, now, rx, procs, wsjtx_running,
                   js8call_running, loop_grid, upd_grid, attempt, wire, cycle,
                   heard, restVars>>

\* AutoGrid.stop and GPSManager.stop clear the two flags
StopFlags ==
    /\ pc = "exited"
    /\ stop_pc = "idle"
    /\ running' = FALSE
    /\ gps_running' = FALSE
    /\ stop_pc' = "joining"
    /\ UNCHANGED <<gpsVars, commVars, appVars, frameVars, wire, cycle, heard,
                   fnVars, socket>>

\* gps_thread.join(timeout=5.0) returns: the thread has ended, or the five
\* seconds are over while it is still in its iteration
StopJoin ==
    /\ stop_pc = "joining"
    /\ stop_pc' = "closing"
    /\ UNCHANGED <<gpsVars, commVars, appVars, frameVars, wire, cycle, heard,
                   fnVars, running, gps_running, socket>>

\* app_comm.stop() closes the sockets and stop() returns
StopClose ==
    /\ stop_pc = "closing"
    /\ stop_pc' = "done"
    /\ socket' = [wsjtx |-> "none", js8call |-> "none"]
    /\ UNCHANGED <<gpsVars, commVars, appVars, frameVars, wire, cycle, heard,
                   fnVars, running, gps_running>>

\* main() returns and the interpreter ends; the GPS thread is a daemon
\* thread, so it is ended where it stands
ProcessEnd ==
    /\ stop_pc = "done"
    /\ stop_pc' = "ended"
    /\ gps_pc' = IF gps_pc = "exited" THEN "exited" ELSE "killed"
    /\ UNCHANGED <<current_position, current_grid, commVars, appVars,
                   frameVars, wire, cycle, heard, fnVars, running,
                   gps_running, socket>>

LifeNext ==
    \/ GpsLife
    \/ MainLoopLife
    \/ Interrupt
    \/ StopFlags
    \/ StopJoin
    \/ StopClose
    \/ ProcessEnd

LifeSpec == Init /\ [][LifeNext]_vars

\* --------------------------------------------------------------- the start
\* AutoGrid.start from "if not self.app_comm.start()" on: pc = "start" is
\* the program before that call, the GPS thread already started.

\* how ApplicationCommunicator.start leaves the two sockets: both bound
\* (it returns True), or an exception at the creation of the first socket,
\* at its bind, at the creation of the second or at its bind (it returns
\* False)
StartOutcomes ==
    { BothBound,
      [wsjtx |-> "none", js8call |-> "none"],
      [wsjtx |-> "unbound", js8call |-> "none"],
      [wsjtx |-> "bound", js8call |-> "none"],
      [wsjtx |-> "bound", js8call |-> "unbound"] }

\* app_comm.start() returns, its result is logged when it is False, then
\* "self.running = True" and _main_loop() is entered
AppStart ==
    /\ pc = "start"
    /\ socket' \in StartOutcomes
    /\ running' = TRUE
    /\ pc' = "recv"
    /\ UNCHANGED <<gpsVars, commVars, appVars, now, rx, procs, wsjtx_running,
                   js8call_running, loop_grid, upd_grid, attempt, wire, cycle,
                   heard, fnVars, gps_running, stop_pc>>

\* the program when AutoGrid.start is about to start the communication
InitStart ==
    /\ Constructed
    /\ pc = "start"
    /\ running = FALSE
    /\ socket = [wsjtx |-> "none", js8call |-> "none"]

StartNext == AppStart \/ LifeNext

StartSpec == InitStart /\ [][StartNext]_vars

\* ----------------------------------------------------------------- NMEAParser
\* Lines and fields are tuples of one-character strings; a coordinate is an
\* integer in units of 1/60000 degree (a thousandth of a minute of arc), a
\* number read by float() an integer in thousandths.  The characters that
\* occur are digits, letters, "$", ",", ".", "-" and the blank.  A local
\* variable of the code is a parameter of the operator that continues from
\* its assignment.

Digit == {"0", "1", "2", "3", "4", "5", "6", "7", "8", "9"}
DigitVal(c) == CHOOSE n \in 0..9 : ToString(n) = c

\* the results of a call: Python's None, a (lat, lon) tuple, a number, an
\* exception that left the function
NoResult == [kind |-> "none"]
Raised == [kind |-> "raised"]
Position(lat, lon) == [kind |-> "position", lat |-> lat, lon |-> lon]
Number(v) == [kind |-> "number", v |-> v]

\* str.find: the 0-based place of the first c, -1 if there is none
RECURSIVE find_from(_, _, _)
find_from(s, c, i) ==
    IF i > Len(s) THEN -1
    ELSE IF s[i] = c THEN i - 1
    ELSE find_from(s, c, i + 1)

find(s, c) == find_from(s, c, 1)

\* s[a:] and s[:b] with Python's indices (0-based, b excluded, clipped)
from(s, a) == SubSeq(s, (IF a < 0 THEN 0 ELSE a) + 1, Len(s))
upto(s, b) == SubSeq(s, 1, IF b < 0 THEN 0 ELSE b)

AllDigits(s) == \A i \in 1..Len(s) : s[i] \in Digit

RECURSIVE digits_value(_)
digits_value(s) ==
    IF s = <<>> THEN 0
    ELSE digits_value(SubSeq(s, 1, Len(s) - 1)) * 10 + DigitVal(s[Len(s)])

\* the sign of int() and float()
negated(r) == IF r = Raised THEN Raised ELSE Number(-r.v)

\* int(s): digits with an optional sign, anything else raises
int_unsigned(body) ==
    IF body = <<>> \/ ~AllDigits(body) THEN Raised
    ELSE Number(digits_value(body))

int_of(s) ==
    IF s # <<>> /\ s[1] = "-" THEN negated(int_unsigned(Tail(s)))
    ELSE int_unsigned(s)

\* float(s), in thousandths (the fields here have at most three decimals):
\* digits with an optional sign and at most one point, at least one digit;
\* anything else raises
float_value(ip, fp) ==
    IF ~AllDigits(ip) \/ ~AllDigits(fp) \/ Len(ip) + Len(fp) = 0
    THEN Raised
    ELSE Number(digits_value(ip) * 1000
                  + digits_value(SubSeq(fp \o <<"0", "0", "0">>, 1, 3)))

float_at(body, dot) ==
    IF dot = -1 THEN float_value(body, <<>>)
    ELSE float_value(upto(body, dot), from(body, dot + 1))

float_unsigned(body) == float_at(body, find(body, "."))

float_of(s) ==
    IF s # <<>> /\ s[1] = "-" THEN negated(float_unsigned(Tail(s)))
    ELSE float_unsigned(s)

\* decimal_degrees = degrees + (minutes / 60.0), negated for S and W
decimal_degrees(degrees, minutes, direction) ==
    IF degrees = Raised \/ minutes = Raised THEN Raised
    ELSE Number(IF direction \in {<<"S">>, <<"W">>}
                THEN -(degrees.v * 60 + minutes.v)
                ELSE degrees.v * 60 + minutes.v)

\* a conversion that takes three characters before the point as minutes
convert_at_ThreeDigits(coord_str, direction, dot_pos) ==
    IF dot_pos < 3 THEN Raised
    ELSE decimal_degrees(float_of(upto(coord_str, dot_pos - 3)),
                         float_of(from(coord_str, dot_pos - 3)), direction)

\* _convert_nmea_coord from "if dot_pos < 2" on
convert_at(coord_str, direction, dot_pos) ==
    IF dot_pos < 2 THEN Raised
    ELSE decimal_degrees(float_of(upto(coord_str, dot_pos - 2)),
                         float_of(from(coord_str, dot_pos - 2)), direction)

\* _convert_nmea_coord, in 1/60000 degree
convert_nmea_coord(coord_str, direction) ==
    IF coord_str = <<>> \/ direction = <<>> THEN Raised
    ELSE convert_at(coord_str, direction, find(coord_str, "."))

\* datetime(...) accepts the date
DaysIn(year, month) ==
    IF month \in {4, 6, 9, 11} THEN 30
    ELSE IF month # 2 THEN 31
    ELSE IF year % 4 = 0 /\ (year % 100 # 0 \/ year % 400 = 0) THEN 29
    ELSE 28

\* the date of _parse_nmea_time: <<>> for today, <<year, month, day>>, or
\* Raised when int() or datetime() rejects it
date_value(year, month, day) ==
    IF Raised \in {year, month, day} THEN Raised
    ELSE IF year.v \in 1..9999 /\ month.v \in 1..12
            /\ day.v \in 1..DaysIn(year.v, month.v)
    THEN <<year.v, month.v, day.v>>
    ELSE Raised

century(year) == IF year = Raised THEN Raised ELSE Number(2000 + year.v)

date_of(date_str) ==
    IF date_str = <<>> THEN <<>>
    ELSE IF Len(date_str) = 6
    THEN date_value(century(int_of(SubSeq(date_str, 5, 6))),
                    int_of(SubSeq(date_str, 3, 4)),
                    int_of(SubSeq(date_str, 1, 2)))
    ELSE IF Len(date_str) = 8
    THEN date_value(int_of(SubSeq(date_str, 1, 4)),
                    int_of(SubSeq(date_str, 5, 6)),
                    int_of(SubSeq(date_str, 7, 8)))
    ELSE Raised

\* float('0.' + time_str.split('.')[1]), in thousandths
fraction_of(rest, dot) ==
    float_of(<<"0", ".">> \o (IF dot = -1 THEN rest ELSE upto(rest, dot)))

microsecond_at(time_str, dot) ==
    IF dot = -1 THEN Number(0)
    ELSE fraction_of(from(time_str, dot + 1),
                     find(from(time_str, dot + 1), "."))

\* datetime(year, month, day, hour, minute, second, microsecond)
datetime_of(date, hour, minute, second, micro) ==
    IF date = Raised \/ Raised \in {hour, minute, second, micro} THEN <<>>
    ELSE IF hour.v \in 0..23 /\ minute.v \in 0..59 /\ second.v \in 0..59
    THEN <<date, hour.v, minute.v, second.v, micro.v>>
    ELSE <<>>

\* _parse_nmea_time: <<date, hour, minute, second, thousandths>>, or NoUtc
\* for its None
parse_nmea_time(time_str, date_str) ==
    IF time_str = <<>> \/ Len(time_str) < 6 THEN NoUtc
    ELSE datetime_of(date_of(date_str),
                     int_of(SubSeq(time_str, 1, 2)),
                     int_of(SubSeq(time_str, 3, 4)),
                     int_of(SubSeq(time_str, 5, 6)),
                     microsecond_at(time_str, find(time_str, ".")))

\* what a parser leaves behind: its return value and last_utc_time
Out(value, utc) == [ret |-> value, utc |-> utc]

\* parts[i] with Python's index
P(parts, i) == parts[i + 1]

\* a parser without its handlers
Catch_Propagate(out) == out

\* "try: ... except: return None", as every parser and parse_nmea_sentence
\* itself have it: what was assigned before the exception stays assigned
Catch(out) == IF out.ret = Raised THEN Out(NoResult, out.utc) ELSE out

\* return (lat, lon), unless a conversion raised
lat_lon(lat, lon, utc) ==
    IF lat = Raised \/ lon = Raised THEN Out(Raised, utc)
    ELSE Out(Position(lat.v, lon.v), utc)

\* the two conversions at the end of every fixed-layout parser
lat_lon_at(parts, i, utc) ==
    lat_lon(convert_nmea_coord(P(parts, i), P(parts, i + 1)),
            convert_nmea_coord(P(parts, i + 2), P(parts, i + 3)), utc)

parse_gpgll(parts, utc) ==
    Catch(IF Len(parts) < 7 THEN Out(NoResult, utc)
          ELSE IF P(parts, 6) # <<"A">> THEN Out(NoResult, utc)
          ELSE lat_lon_at(parts, 1, parse_nmea_time(P(parts, 5), <<>>)))

parse_gpgga(parts, utc) ==
    Catch(IF Len(parts) < 15 THEN Out(NoResult, utc)
          ELSE IF P(parts, 6) = <<"0">> THEN Out(NoResult, utc)
          ELSE lat_lon_at(parts, 2, parse_nmea_time(P(parts, 1), <<>>)))

parse_gprmc(parts, utc) ==
    Catch(IF Len(parts) < 12 THEN Out(NoResult, utc)
          ELSE IF P(parts, 2) # <<"A">> THEN Out(NoResult, utc)
          ELSE lat_lon_at(parts, 3,
                          parse_nmea_time(P(parts, 1), P(parts, 9))))

parse_gns(parts, utc) ==
    Catch(IF Len(parts) < 6 THEN Out(NoResult, utc)
          ELSE IF P(parts, 2) = <<>> \/ P(parts, 4) = <<>>
          THEN Out(NoResult, utc)
          ELSE lat_lon_at(parts, 2, parse_nmea_time(P(parts, 1), <<>>)))

\* _parse_bwc (i = 3, n = 7), _parse_rmb (i = 6, n = 10), _parse_wpl
\* (i = 1, n = 5)
parse_waypoint(parts, utc, i, n) ==
    Catch(IF Len(parts) < n THEN Out(NoResult, utc)
          ELSE IF P(parts, i) = <<>> \/ P(parts, i + 2) = <<>>
          THEN Out(NoResult, utc)
          ELSE lat_lon_at(parts, i, utc))

\* str.zfill(2)
zfill2(s) == IF Len(s) = 0 THEN <<"0", "0">>
             ELSE IF Len(s) = 1 THEN <<"0">> \o s ELSE s

parse_zda(parts, utc) ==
    Catch(IF Len(parts) < 5 THEN Out(NoResult, utc)
          ELSE IF <<>> \in {P(parts, 1), P(parts, 2), P(parts, 3), P(parts, 4)}
          THEN Out(NoResult, utc)
          ELSE Out(NoResult,
                   parse_nmea_time(P(parts, 1),
                       P(parts, 4) \o zfill2(P(parts, 3))
                                   \o zfill2(P(parts, 2)))))

\* 0 <= degrees <= limit and 0 <= minutes < 60
within(degrees, minutes, limit) ==
    /\ degrees # Raised /\ minutes # Raised
    /\ 0 <= degrees.v /\ degrees.v <= limit
    /\ 0 <= minutes.v /\ minutes.v < 60000

\* parts = value.split('.'), of length 2
looks_like_parts(head, tail, limit) ==
    /\ find(tail, ".") = -1
    /\ within(int_of(upto(head, Len(head) - 2)),
              float_of(from(head, Len(head) - 2) \o <<".">> \o tail), limit)

looks_like_at(value, dot, limit) ==
    /\ dot # -1
    /\ looks_like_parts(upto(value, dot), from(value, dot + 1), limit)

\* _looks_like_lat (limit 90) and _looks_like_lon (limit 180)
looks_like(value, limit) ==
    value # <<>> /\ looks_like_at(value, find(value, "."), limit)

looks_like_lat(value) == looks_like(value, 90)
looks_like_lon(value) == looks_like(value, 180)

\* the places i, j at which _parse_generic returns
GenericHits(parts) ==
    { ij \in (0..(Len(parts) - 1)) \X (0..(Len(parts) - 2)) :
        /\ ij[2] >= ij[1] + 2
        /\ ij[1] + 1 < Len(parts)
        /\ looks_like_lat(P(parts, ij[1]))
        /\ P(parts, ij[1] + 1) \in {<<"N">>, <<"S">>}
        /\ looks_like_lon(P(parts, ij[2]))
        /\ P(parts, ij[2] + 1) \in {<<"E">>, <<"W">>}
        /\ convert_nmea_coord(P(parts, ij[1]), P(parts, ij[1] + 1)) # Raised
        /\ convert_nmea_coord(P(parts, ij[2]), P(parts, ij[2] + 1)) # Raised }

\* the first of them in the order of the two loops
FirstHit(hits) ==
    CHOOSE h \in hits :
        \A g \in hits : h[1] < g[1] \/ (h[1] = g[1] /\ h[2] <= g[2])

generic_at(parts, utc, ij) ==
    lat_lon(convert_nmea_coord(P(parts, ij[1]), P(parts, ij[1] + 1)),
            convert_nmea_coord(P(parts, ij[2]), P(parts, ij[2] + 1)), utc)

generic_from(parts, utc, hits) ==
    IF hits = {} THEN Out(NoResult, utc)
    ELSE generic_at(parts, utc, FirstHit(hits))

\* _parse_generic: the first latitude/hemisphere pair followed by a
\* longitude/hemisphere pair that both convert
parse_generic(parts, utc) == generic_from(parts, utc, GenericHits(parts))

\* str.strip for the blank
RECURSIVE strip(_)
strip(s) ==
    IF s = <<>> THEN s
    ELSE IF s[1] = " " THEN strip(Tail(s))
    ELSE IF s[Len(s)] = " " THEN strip(SubSeq(s, 1, Len(s) - 1))
    ELSE s

\* str.split(',')
RECURSIVE split_at(_, _)
split_at(s, k) ==
    IF k = -1 THEN <<s>>
    ELSE <<upto(s, k)>> \o split_at(from(s, k + 1), find(from(s, k + 1), ","))

split(s) == split_at(s, find(s, ","))

\* the sentence types parse_nmea_sentence knows
GP == <<"$", "G", "P">>
GN == <<"$", "G", "N">>
GLL == <<"G", "L", "L">>
GGA == <<"G", "G", "A">>
RMC == <<"R", "M", "C">>
GNS == <<"G", "N", "S">>
BWC == <<"B", "W", "C">>
RMB == <<"R", "M", "B">>
WPL == <<"W", "P", "L">>
APB == <<"A", "P", "B">>
VTG == <<"V", "T", "G">>
ZDA == <<"Z", "D", "A">>

\* parse_nmea_sentence from "if len(parts) < 6" on
dispatch_parts(parts, utc) ==
    IF Len(parts) < 6 THEN Out(NoResult, utc)
    ELSE IF parts[1] = GP \o GLL THEN parse_gpgll(parts, utc)
    ELSE IF parts[1] = GP \o GGA THEN parse_gpgga(parts, utc)
    ELSE IF parts[1] = GP \o RMC THEN parse_gprmc(parts, utc)
    ELSE IF parts[1] \in {GP \o GNS, GN \o GNS} THEN parse_gns(parts, utc)
    ELSE IF parts[1] = GP \o BWC THEN parse_waypoint(parts, utc, 3, 7)
    ELSE IF parts[1] = GP \o RMB THEN parse_waypoint(parts, utc, 6, 10)
    ELSE IF parts[1] = GP \o WPL THEN parse_waypoint(parts, utc, 1, 5)
    ELSE IF parts[1] \in {GP \o APB, GP \o VTG, GP \o ZDA}
    THEN IF parts[1] = GP \o VTG THEN Out(NoResult, utc)
         ELSE IF parts[1] = GP \o ZDA THEN parse_zda(parts, utc)
         ELSE Catch(parse_generic(parts, utc))
    ELSE parse_generic(parts, utc)

\* parse_nmea_sentence from "if not sentence.startswith('$')" on
dispatch(stripped, utc) ==
    IF stripped = <<>> \/ stripped[1] # "$" THEN Out(NoResult, utc)
    ELSE dispatch_parts(split(stripped), utc)

parse_nmea_sentence(sentence, utc) == Catch(dispatch(strip(sentence), utc))

\* ------------------------------------------------------------ NMEA inputs
N == <<"N">>
E == <<"E">>
LatGood == <<"4", "8", "0", "7", ".", "0", "3", "8">>
LonGood == <<"0", "1", "1", "3", "1", ".", "0", "0", "0">>
\* only two characters before the point
LatShort == <<"0", "7", ".", "0", "3", "8">>
TimeGood == <<"1", "2", "3", "5", "1", "9">>
TimeBad == <<"1", "2", "x", "5", "1", "9">>
DateGood == <<"2", "3", "0", "3", "9", "4">>
Fill == <<"1">>

LatFields == {LatGood, LatShort, <<>>}
TimeFields == {TimeGood, TimeBad, <<>>}
Talkers == {GP, GN}

RECURSIVE join(_)
join(parts) ==
    IF parts = <<>> THEN <<>>
    ELSE IF Len(parts) = 1 THEN parts[1]
    ELSE parts[1] \o <<",">> \o join(Tail(parts))

\* the sentence layouts of the NMEA 0183 standard
GllParts(t, lat, time, status) ==
    <<t \o GLL, lat, N, LonGood, E, time, status, <<"A">>>>
GgaParts(t, lat, time, quality) ==
    <<t \o GGA, time, lat, N, LonGood, E, quality, Fill, Fill, Fill,
      <<"M">>, Fill, <<"M">>, <<>>, <<>>>>
RmcParts(t, lat, time, status) ==
    <<t \o RMC, time, status, lat, N, LonGood, E, Fill, Fill, DateGood,
      Fill, E>>
GnsParts(t, lat, time, mode) ==
    <<t \o GNS, time, lat, N, LonGood, E, mode, Fill, Fill, Fill, Fill,
      <<>>, <<>>>>
ZdaParts(t, time, day) ==
    <<t \o ZDA, time, day, <<"0", "3">>, <<"1", "9", "9", "4">>, Fill, Fill>>

OtherLines ==
    { <<>>,
      <<" ", " ">>,
      <<" ">> \o join(GllParts(GP, LatGood, TimeGood, <<"A">>)) \o <<" ">>,
      Tail(join(GllParts(GP, LatGood, TimeGood, <<"A">>))),
      join(<<GP \o GLL, LatGood, N>>),
      join(<<GP \o GLL, LatGood, N, LonGood, E, TimeGood>>),
      join(<<GP \o WPL, LatGood, N, LonGood, E, <<"H", "O", "M", "E">>>>),
      join(<<GP \o WPL, LatShort, N, LonGood, E, <<"H", "O", "M", "E">>>>),
      join(<<GP \o BWC, TimeGood, LatGood, N, LonGood, E, Fill, <<"T">>,
             Fill, <<"M">>, Fill, N, <<"H", "O", "M", "E">>>>),
      join(<<GP \o RMB, <<"A">>, Fill, <<"L">>, Fill, Fill, LatGood, N,
             LonGood, E, Fill, Fill, Fill, <<"V">>>>),
      join(<<GP \o APB, <<"A">>, <<"A">>, Fill, <<"R">>, N, <<"V">>,
             <<"V">>, Fill, <<"M">>, <<"H", "O", "M", "E">>>>),
      join(<<GP \o VTG, Fill, <<"T">>, Fill, <<"M">>, Fill, N, Fill,
             <<"K">>>>),
      join(<<<<"$", "P", "X", "Y", "Z">>, Fill, LatGood, N, Fill, LonGood,
             E, Fill>>) }

Sentences ==
    { join(GllParts(t, lat, time, st)) :
        t \in Talkers, lat \in LatFields, time \in TimeFields,
        st \in {<<"A">>, <<"V">>} }
    \cup { join(GgaParts(t, lat, time, q)) :
        t \in Talkers, lat \in LatFields, time \in TimeFields,
        q \in {<<"1">>, <<"0">>} }
    \cup { join(RmcParts(t, lat, time, st)) :
        t \in Talkers, lat \in LatFields, time \in TimeFields,
        st \in {<<"A">>, <<"V">>} }
    \cup { join(GnsParts(t, lat, time, mode)) :
        t \in Talkers, lat \in LatFields, time \in TimeFields,
        mode \in {<<"A", "A">>, <<"N", "N">>} }
    \cup { join(ZdaParts(t, time, day)) :
        t \in Talkers, time \in TimeFields, day \in {<<"2", "3">>, <<"3", "2">>} }
    \cup OtherLines

CoordFields ==
    { LatGood, LonGood, LatShort, <<>>,
      <<"4", "8", "0", "7", "0", "3", "8">>,
      <<"7", ".", "0", "3", "8">>,
      <<".", "5">>,
      <<"4", "8", "x", "7", ".", "0", "3", "8">>,
      <<"0", "0", "0", "0", ".", "0", "0", "0">>,
      <<"9", "0", "0", "0", ".", "0">>,
      <<"1", "7", "9", "5", "9", ".", "9", "9", "9">>,
      <<"4", "8", "0", "7", ".", "0", "3", ".", "8">> }
Directions == {<<"N">>, <<"S">>, <<"E">>, <<"W">>, <<"X">>, <<>>}

\* _process_nmea_sentence hands a line to the parser
CallParse ==
    /\ \E s \in Sentences :
        LET out == parse_nmea_sentence(s, last_utc_time)
        IN  /\ call' = [fn |-> "parse_nmea_sentence", sentence |-> s]
            /\ ret' = out.ret
            /\ last_utc_time' = out.utc
    /\ UNCHANGED <<gpsVars, commVars, appVars, frameVars, wire, cycle, heard,
                   lifeVars>>

\* one field and its hemisphere are converted
CallConvert ==
    /\ \E c \in CoordFields, d \in Directions :
        /\ call' = [fn |-> "_convert_nmea_coord", coord_str |-> c,
                    direction |-> d]
        /\ ret' = convert_nmea_coord(c, d)
    /\ UNCHANGED <<gpsVars, commVars, appVars, frameVars, wire, cycle, heard,
                   last_utc_time, lifeVars>>

NmeaNext == CallParse \/ CallConvert

NmeaSpec == Init /\ [][NmeaNext]_vars

\* ------------------------------------------------------- GridConverter calls
\* latitudes and longitudes in hundredths of a degree: both ends of the
\* range and the first value outside, cell edges and their neighbours
GridLats == {-9001, -9000, -8999, -1, 0, 1, 999, 1000, 4812, 4825, 8999,
             9000, 9001}
GridLons == {-18001, -18000, -17999, -1, 0, 1, 199, 200, 1152, 1175, 17999,
             18000, 18001}
\* the precisions a configuration can give the converter: the two supported
\* ones and two others
Precisions == {4, 5, 6, 8}

\* lat_lon_to_grid is called on a converter of any of these precisions
CallGrid ==
    /\ \E lat \in GridLats, lon \in GridLons, prec \in Precisions :
        /\ call' = [fn |-> "lat_lon_to_grid", lat |-> lat, lon |-> lon,
                    precision |-> prec]
        /\ ret' = to_grid(lat, lon, prec)
    /\ UNCHANGED <<gpsVars, commVars, appVars, frameVars, wire, cycle, heard,
                   last_utc_time, lifeVars>>

GridSpec == Init /\ [][CallGrid]_vars

\* ---------------------------------------------------------------- the codec
\* _build_wsjtx_location_packet and the header decode of check_heartbeats on
\* byte strings (tuples of 0..255).
\* str.encode('utf-8') for the texts that occur here
utf8 ==
    ("WSJT-X" :> <<87, 83, 74, 84, 45, 88>>) @@
    ("WSJT-Y" :> <<87, 83, 74, 84, 45, 89>>) @@
    ("W" :> <<87>>) @@
    ("JTDXé" :> <<74, 84, 68, 88, 195, 169>>) @@
    ("GRID:JJ00" :> <<71, 82, 73, 68, 58, 74, 74, 48, 48>>) @@
    ("GRID:JN58" :> <<71, 82, 73, 68, 58, 74, 78, 53, 56>>) @@
    ("GRID:JN58td" :> <<71, 82, 73, 68, 58, 74, 78, 53, 56, 116, 100>>) @@
    ("GRID:SS00" :> <<71, 82, 73, 68, 58, 83, 83, 48, 48>>)

\* bytes.decode('utf-8'): the text with these bytes, "badutf8" if there is none
utf8_decode(bytes) ==
    IF \E t \in DOMAIN utf8 : utf8[t] = bytes
    THEN CHOOSE t \in DOMAIN utf8 : utf8[t] = bytes
    ELSE "badutf8"

\* a writer that packs in the byte order of the host (little-endian)
pack_NativeOrder(n) ==
    <<n % 256, (n \div 256) % 256, (n \div 65536) % 256, n \div 16777216>>

\* struct.pack('>l', n) and struct.pack('>L', n) for 0 <= n < 2^31
pack(n) ==
    <<n \div 16777216, (n \div 65536) % 256, (n \div 256) % 256, n % 256>>

\* struct.unpack('>L', b) for a value below 2^31
unpack(b) == ((b[1] * 256 + b[2]) * 256 + b[3]) * 256 + b[4]

\* _build_wsjtx_location_packet; id is self.wsjtx_id, text the grid text
build_wsjtx_location_packet(id, text) ==
    LET id_str == IF id = None THEN "WSJT-X" ELSE id
        id_bytes == utf8[id_str]
        grid_bytes == utf8[text]
    IN  MAGIC_NUMBER \o pack(SCHEMA_VERSION) \o pack(LocationType)
          \o pack(Len(id_bytes)) \o id_bytes
          \o pack(Len(grid_bytes)) \o grid_bytes

\* what check_heartbeats unpacks from a datagram: the four header words and,
\* when the buffer holds them, the decoded id bytes
decode_datagram(data, addr) ==
    IF Len(data) < HeaderLen
    THEN Pkt(Len(data), <<>>, 0, 0, 0, "", addr)
    ELSE LET id_len == unpack(SubSeq(data, 13, 16))
         IN  Pkt(Len(data), SubSeq(data, 1, 4), unpack(SubSeq(data, 5, 8)),
                 unpack(SubSeq(data, 9, 12)), id_len,
                 IF id_len > 0 /\ Len(data) >= HeaderLen + id_len
                 THEN utf8_decode(SubSeq(data, 17, 16 + id_len)) ELSE "",
                 addr)

CodecIds == {None, "WSJT-X", "WSJT-Y", "W", "JTDXé"}
CodecTexts == {"GRID:JJ00", "GRID:JN58", "GRID:JN58td", "GRID:SS00"}

\* the encoder is called
CallBuild ==
    /\ \E id \in CodecIds, text \in CodecTexts :
        /\ call' = [fn |-> "build_wsjtx_location_packet", id |-> id,
                    text |-> text]
        /\ ret' = build_wsjtx_location_packet(id, text)
    /\ UNCHANGED <<gpsVars, commVars, appVars, frameVars, wire, cycle, heard,
                   last_utc_time, lifeVars>>

\* the packet just built arrives at the program's own listener
DecodeOwn ==
    /\ call.fn = "build_wsjtx_location_packet"
    /\ \E addr \in Addrs : rx' = decode_datagram(ret, addr)
    /\ UNCHANGED <<gpsVars, commVars, appVars, pc, now, procs, wsjtx_running,
                   js8call_running, loop_grid, upd_grid, attempt, wire, cycle,
                   heard, restVars>>

CodecNext == CallBuild \/ DecodeOwn

CodecSpec == Init /\ [][CodecNext]_vars

\* ------------------------------------------------- send_js8call_grid_update
\* The sender called on its own, with every way the connection can go:
\* connect refused, send failing, and recv returning data, timing out,
\* returning nothing (closed by the peer) or raising another error.
SendGrids == { to_grid(lat, lon, 4).text : lat \in {0, 4812, 8999},
                                            lon \in {0, 1152} }

CallSendJs8 ==
    /\ \E grid \in SendGrids, o \in Js8Outcomes :
        /\ call' = [fn |-> "send_js8call_grid_update", grid |-> grid,
                    outcome |-> o, last |-> js8call_last_grid]
        /\ ret' = send_js8call_grid_update(grid, js8call_last_grid, o)
        /\ js8call_last_grid' = ret'.last
    /\ UNCHANGED <<gpsVars, wsjtx_id, wsjtx_last_addr, wsjtx_last_packet_time,
                   wsjtx_last_grid, wsjtx_pending_grid_update,
                   pending_grid_value, appVars, frameVars, wire, cycle, heard,
                   last_utc_time, lifeVars>>

SendSpec == Init /\ [][CallSendJs8]_vars

\* ------------------------------------------------------------------ claims
\* a dispatch cycle has run to its end; cycle, wire and the locals describe it
CycleDone == pc = "recv" /\ now > 0

\* a packet with the matching magic number and type heartbeat or status
Qualifying(p) ==
    /\ p.kind = "data"
    /\ p.magic = MAGIC_NUMBER
    /\ p.pkt_type \in {0, 1}

Addressable == wsjtx_id # None /\ wsjtx_last_addr # None

\* C1: in a cycle in which WSJT-X goes from Unseen to Live and a grid exists,
\* no location-change packet is sent to it and the pending update is armed
\* with that grid.
C1_NoSendOnWsjtxEdge ==
    (cycle.edge_wsjtx /\ loop_grid # None) =>
        /\ ~cycle.ok_wsjtx
        /\ wsjtx_pending_grid_update
        /\ pending_grid_value = loop_grid

\* C2: at the end of a cycle in which attempts were made to an application
\* and every one failed, exactly max_retries attempts were made to it.
C2_ExactlyNAttempts ==
    CycleDone =>
        /\ (cycle.n_wsjtx > 0 /\ ~cycle.ok_wsjtx) => cycle.n_wsjtx = max_retries
        /\ (cycle.n_js8call > 0 /\ ~cycle.ok_js8call) => cycle.n_js8call = max_retries

\* C3: check_heartbeats reports WSJT-X Live only if the packet received in
\* this cycle is a qualifying one (its age is 0, inside the 30 s window) and
\* the process was found running in this cycle; otherwise it reports Unseen.
C3_LiveOnlyIfPacketAndProcess ==
    [][(pc = "process" /\ pc' = "dispatch") =>
         (wsjtx_running' =>
            /\ Qualifying(rx)
            /\ wsjtx_last_packet_time' # NoTime
            /\ now - wsjtx_last_packet_time' <= detection_timeout
            /\ procs.wsjtx)]_vars

\* a qualifying packet arrived in this cycle, yet WSJT-X is reported Unseen
C3_Witness ==
    /\ pc = "dispatch"
    /\ now > 0
    /\ wsjtx_last_packet_time = now
    /\ ~wsjtx_running

\* C4: at the end of every cycle, for an endpoint that is Live (and, for
\* WSJT-X, addressable) and whose lastAcknowledgedGrid differs from the grid
\* read by the steady-state step, a send of that grid was attempted.
C4_SteadyStateSends ==
    CycleDone =>
        /\ (wsjtx_detected /\ Addressable /\ upd_grid # None
              /\ upd_grid # wsjtx_last_grid)
             => Tried("wsjtx", "steady", upd_grid) \in cycle.tried
        /\ (js8call_detected /\ upd_grid # None /\ upd_grid # js8call_last_grid)
             => Tried("js8call", "steady", upd_grid) \in cycle.tried

\* both endpoints Live, a grid read, and every steady-state send failed
C4_Witness ==
    /\ CycleDone
    /\ wsjtx_detected /\ Addressable /\ js8call_detected
    /\ upd_grid # None
    /\ upd_grid # wsjtx_last_grid /\ upd_grid # js8call_last_grid
    /\ Tried("wsjtx", "steady", upd_grid) \in cycle.tried
    /\ Tried("js8call", "steady", upd_grid) \in cycle.tried

\* C5: lastAcknowledgedGrid of an endpoint changes only in a step that makes
\* a successful send attempt to that endpoint, and becomes the grid sent; a
\* failed attempt (a refused one included) leaves it unchanged.
C5_LastGridOnlyOnSuccess ==
    [][/\ (wsjtx_last_grid' # wsjtx_last_grid) =>
            /\ cycle'.n_wsjtx = cycle.n_wsjtx + 1
            /\ wire'.app = "wsjtx" /\ wire'.ok
            /\ wsjtx_last_grid' = wire'.grid
       /\ (js8call_last_grid' # js8call_last_grid) =>
            /\ cycle'.n_js8call = cycle.n_js8call + 1
            /\ wire'.app = "js8call" /\ wire'.ok
            /\ js8call_last_grid' = wire'.grid
       /\ (cycle'.n_wsjtx = cycle.n_wsjtx + 1) =>
            /\ wire'.app = "wsjtx"
            /\ wsjtx_last_grid' = IF wire'.ok THEN wire'.grid ELSE wsjtx_last_grid
            /\ (wire'.id = None \/ wire'.addr = None) => ~wire'.ok
       /\ (cycle'.n_js8call = cycle.n_js8call + 1) =>
            /\ wire'.app = "js8call"
            /\ js8call_last_grid' = IF wire'.ok THEN wire'.grid
                                    ELSE js8call_last_grid]_vars

\* a send to an addressable WSJT-X failed and its acknowledged grid, which
\* is another grid, is still in place
C5_Witness ==
    /\ wire.app = "wsjtx" /\ ~wire.ok
    /\ wire.id # None /\ wire.addr # None
    /\ wsjtx_last_grid # None /\ wsjtx_last_grid # wire.grid

\* C6: the grid transmitted when the pending update fires is the current
\* grid at that moment.
C6_PendingSendsNewestGrid ==
    [][(pc = "process" /\ wire'.app = "wsjtx" /\ wire'.ok)
         => wire'.grid = current_grid]_vars

\* C7: in a cycle in which JS8Call goes from Unseen to Live and a grid
\* exists, a send of that grid to it has been attempted once the edge
\* handling is over, whatever its lastAcknowledgedGrid.
C7_Js8EdgeSends ==
    (cycle.edge_js8call /\ loop_grid # None /\ pc # "js8_edge_send")
        => Tried("js8call", "edge", loop_grid) \in cycle.tried

\* an edge send that failed although JS8Call already held that very grid
C7_Witness ==
    /\ cycle.edge_js8call
    /\ wire.app = "js8call" /\ wire.path = "edge" /\ ~wire.ok
    /\ js8call_last_grid = wire.grid

\* C8: every transmitted location-change packet goes to the source address
\* of the most recently received qualifying packet, and the stored address
\* changes only to the source address of a qualifying packet.
C8_UnicastToLastHeard ==
    [][/\ (wire'.app = "wsjtx" /\ wire'.ok) =>
            /\ wire'.addr = heard'.addr
            /\ wire'.addr \in Addrs
       /\ (wsjtx_last_addr' # wsjtx_last_addr) =>
            /\ Qualifying(rx)
            /\ wsjtx_last_addr' = rx.addr]_vars

\* a packet carrying the id learned at a1 was sent to a2, where the latest
\* qualifying packet came from
C8_Witness ==
    /\ wire.app = "wsjtx" /\ wire.ok
    /\ wire.id = "WSJT-X" /\ wire.addr = "a2"

\* C9: from a state in which no session id is known, or no sender address
\* is known before and after the step, no location-change packet is
\* transmitted and WSJT-X's lastAcknowledgedGrid does not change.
C9_NoSendUnlessAddressable ==
    [][(wsjtx_id = None \/ (wsjtx_last_addr = None /\ wsjtx_last_addr' = None)) =>
         /\ ~(wire'.app = "wsjtx" /\ wire'.ok)
         /\ wsjtx_last_grid' = wsjtx_last_grid]_vars

\* WSJT-X is reported Live, a pending update fired, and it was refused
\* because no session id had been learned
C9_Witness ==
    /\ pc = "dispatch" /\ wsjtx_running
    /\ wire.app = "wsjtx" /\ wire.path = "pending"
    /\ wire.id = None /\ ~wire.ok

\* C10: every transmitted location-change packet carries the session id of
\* the most recent heartbeat received before it was built.
C10_PacketCarriesLatestId ==
    (wire.app = "wsjtx" /\ wire.ok) => wire.id = heard.id

\* what check_heartbeats leaves of a datagram that is no event: WSJT-X is
\* not reported Live, nothing is sent, and the address, the packet time, the
\* session id and the pending update are as before
NoEvent ==
    /\ ~wsjtx_running'
    /\ wire' = NoSend
    /\ UNCHANGED <<wsjtx_last_addr, wsjtx_last_packet_time, wsjtx_id,
                   wsjtx_pending_grid_update, pending_grid_value,
                   wsjtx_last_grid>>

\* C11: a datagram whose magic number is not 0xADBCCBDA is no event:
\* check_heartbeats returns normally, does not report WSJT-X Live for the
\* cycle, and leaves the last address, the last-packet time, the session id
\* and the pending update unchanged (the pending update does not fire).
C11_WrongMagicIsNoEvent ==
    [][(pc = "process" /\ pc' = "dispatch"
          /\ rx.kind = "data" /\ rx.magic # MAGIC_NUMBER) => NoEvent]_vars

\* check_heartbeats has returned from a wrong-magic datagram received while
\* a pending update was armed and WSJT-X was addressable; it is still armed
C11_Witness ==
    /\ pc = "dispatch"
    /\ rx.kind = "data" /\ rx.magic # MAGIC_NUMBER
    /\ Addressable
    /\ wsjtx_pending_grid_update /\ pending_grid_value # None

\* C12: a datagram shorter than 16 bytes, or whose declared session-id
\* length exceeds the bytes that follow the header, is discarded: it does not
\* report WSJT-X Live, does not change the address, the packet time or the
\* session id, and does not fire the pending update.
C12_MalformedIsDiscarded ==
    [][(pc = "process" /\ pc' = "dispatch" /\ rx.kind = "data"
          /\ (rx.size < HeaderLen \/ rx.id_len > rx.size - HeaderLen))
         => NoEvent]_vars

\* C13: once the grid has stopped changing, with each endpoint observed Live
\* (WSJT-X addressable) again and again and sends to it succeeding
\* eventually, each endpoint's lastAcknowledgedGrid becomes the current grid
\* and stays it, whatever retries were used up before.
C13_SelfHealing ==
    <>[](current_grid # None =>
           /\ wsjtx_last_grid = current_grid
           /\ js8call_last_grid = current_grid)

\* in the stable phase a cycle used up all its steady-state attempts to both
\* endpoints and both still hold another grid than the current one
C13_Witness ==
    /\ CycleDone /\ now = StableAt
    /\ current_grid # None
    /\ Tried("wsjtx", "steady", current_grid) \in cycle.tried
    /\ Tried("js8call", "steady", current_grid) \in cycle.tried
    /\ ~cycle.ok_wsjtx /\ ~cycle.ok_js8call
    /\ wsjtx_last_grid \notin {None, current_grid}
    /\ js8call_last_grid \notin {None, current_grid}

\* C14: within one dispatch cycle the transition send to JS8Call and the
\* steady-state sends all carry one and the same current-grid value, however
\* the GPS loop interleaves.
C14_OneGridPerCycle ==
    CycleDone =>
        \A t1, t2 \in cycle.tried :
            (t1.path # "pending" /\ t2.path # "pending") => t1.grid = t2.grid

\* the main thread has time left for another step
TimeLeft == pc # "recv" \/ \E d \in Delays : now + d <= ThreadTime

\* C15: neither loop can block the other: wherever the GPS thread stands (in
\* a read, in a sleep), the main thread can take its next step, and wherever
\* the main thread stands (in a receive, in a retry), the GPS thread can take
\* its next step.
C15_LoopsDoNotBlock ==
    /\ TimeLeft => ENABLED MainLoopThread
    /\ ENABLED GpsThread

\* the dispatch loop is between two attempts of a retry loop, and the GPS
\* thread has meanwhile finished a poll that replaced the grid
C15_Witness ==
    /\ pc = "js8_send" /\ attempt > 0
    /\ gps_pc = "sleep"
    /\ upd_grid # None /\ current_grid # upd_grid

\* C16: no parse error, transport error, grid-conversion error or dispatch
\* failure ends a loop: the GPS thread is never dead and leaves every wait
\* for its next iteration; the main thread goes on after a datagram it could
\* not use and after a send that failed.
C16_ErrorsDoNotStopLoops ==
    /\ gps_pc \in {"poll", "read", "sleep", "backoff"}
    /\ gps_pc \in {"sleep", "backoff"} => ENABLED GpsWake
    /\ gps_pc = "poll" => ENABLED GpsPoll
    /\ pc \in {"recv", "process", "dispatch", "js8_edge_send", "state",
                "update", "wsjtx_send", "js8_send"}
    /\ (TimeLeft /\ rx \in {RecvError} \cup {p \in Packets : ~Alive(p)})
         => ENABLED MainLoopThread
    /\ (TimeLeft /\ wire # NoSend /\ ~wire.ok) => ENABLED MainLoopThread

\* the GPS thread is back at the head of its loop after a fix that was out of
\* range, and the main thread is at the head of its loop after a cycle whose
\* sends to JS8Call all failed
C16_Witness ==
    /\ gps_pc = "poll"
    /\ current_position # NoPosition
    /\ ~InRange(current_position[1], current_position[2])
    /\ CycleDone /\ TimeLeft
    /\ cycle.n_js8call >= max_retries /\ ~cycle.ok_js8call

\* check_heartbeats returns in this step
Returns == pc = "process" /\ pc' = "dispatch"

\* C17: in every cycle JS8Call is reported Live exactly if its process is
\* found running in that cycle, whatever was received and whatever was
\* reported before.
C17_Js8LiveIffProcess ==
    [][Returns => (js8call_running' <=> procs.js8call)]_vars

\* JS8Call, Live in the cycle before, is reported Unseen in a cycle in which
\* a WSJT-X heartbeat arrived
C17_Witness ==
    /\ pc = "dispatch"
    /\ ~js8call_running /\ js8call_detected
    /\ rx.kind = "data" /\ Qualifying(rx)

\* C18: the session id, once learned, is never cleared; it changes only in
\* a call of check_heartbeats that received a heartbeat carrying a session
\* id, and then to that id.
C18_SessionIdRetained ==
    [][/\ wsjtx_id # None => wsjtx_id' # None
       /\ wsjtx_id' # wsjtx_id =>
            /\ Returns
            /\ Qualifying(rx) /\ rx.pkt_type = 0
            /\ rx.id_len > 0 /\ rx.size >= HeaderLen + rx.id_len
            /\ wsjtx_id' = rx.id]_vars

\* WSJT-X, which has been Live before and was Unseen in the last cycle, is
\* Live again on a status packet and its session id is still known
C18_Witness ==
    /\ pc = "dispatch"
    /\ wsjtx_running /\ ~prev_wsjtx_detected
    /\ rx.kind = "data" /\ rx.pkt_type = 1
    /\ wsjtx_last_grid # None
    /\ wsjtx_id # None

\* C19: a call of check_heartbeats that receives a heartbeat or status
\* packet it can decode while a pending update is armed makes exactly one
\* send attempt with the stored grid and leaves the update cleared, whether
\* or not the attempt succeeded; a pending send happens in no other step, so
\* an update fires once.
C19_PendingFiresOnce ==
    [][/\ (Returns /\ wsjtx_pending_grid_update /\ Qualifying(rx)
              /\ rx.size >= HeaderLen /\ ~DecodeFails(rx)) =>
            /\ cycle'.n_wsjtx = cycle.n_wsjtx + 1
            /\ wire'.app = "wsjtx" /\ wire'.path = "pending"
            /\ wire'.grid = pending_grid_value
            /\ ~wsjtx_pending_grid_update'
            /\ pending_grid_value' = None
       /\ (wire'.app = "wsjtx" /\ wire'.path = "pending" /\ wire' # wire) =>
            /\ Returns /\ wsjtx_pending_grid_update
            /\ cycle.n_wsjtx = 0 /\ cycle'.n_wsjtx = 1
       /\ (wsjtx_pending_grid_update' /\ ~wsjtx_pending_grid_update) =>
            pc = "dispatch"]_vars

\* the pending update fired for an addressable WSJT-X, the send failed, and
\* the update is cleared all the same
C19_Witness ==
    /\ pc = "dispatch"
    /\ wire.app = "wsjtx" /\ wire.path = "pending" /\ ~wire.ok
    /\ wire.id # None /\ wire.addr # None
    /\ ~wsjtx_pending_grid_update /\ pending_grid_value = None

\* C20: a heartbeat or status packet with the correct magic number marks
\* WSJT-X as seen, its process running, whether its schema field is 2 or 3.
C20_SchemaTolerated ==
    [][(Returns /\ Qualifying(rx) /\ rx.schema \in {2, 3}
          /\ rx.size >= HeaderLen /\ ~DecodeFails(rx) /\ procs.wsjtx)
         => /\ wsjtx_running'
            /\ wsjtx_last_addr' = rx.addr
            /\ wsjtx_last_packet_time' = now]_vars

\* WSJT-X is reported Live on a heartbeat whose schema field is 3, after a
\* session id was learned from one whose schema field is 2
C20_Witness ==
    /\ pc = "dispatch" /\ wsjtx_running
    /\ rx.kind = "data" /\ rx.schema = 3
    /\ heard.id = "WSJT-Y" /\ wire.app = "wsjtx" /\ wire.id = "WSJT-X"

\* C21: the header of every packet the location-change encoder produces,
\* decoded by check_heartbeats' own unpacking, has magic number 0xADBCCBDA
\* and packet type 11, so the packet is neither a heartbeat nor a status
\* packet.
C21_CodecRoundTrip ==
    /\ call.fn = "build_wsjtx_location_packet" =>
          LET p == decode_datagram(ret, "a1")
          IN  /\ p.magic = <<173, 188, 203, 218>>
              /\ p.pkt_type = 11
              /\ ~Qualifying(p)
    /\ rx.kind = "data" =>
          /\ rx.magic = <<173, 188, 203, 218>>
          /\ rx.pkt_type = 11
          /\ ~Qualifying(rx)

\* the packet built for a session id with a two-byte character and a
\* six-character grid has come back through the decoder with that id
C21_Witness ==
    /\ call.fn = "build_wsjtx_location_packet"
    /\ call.id = "JTDXé" /\ call.text = "GRID:JN58td"
    /\ rx.kind = "data" /\ rx.id = call.id /\ rx.id_len = 6
    /\ rx.size = Len(ret) /\ rx.size = 37

\* C22: the two loops write disjoint state: a step of the GPS thread leaves
\* the endpoint state (detection flags, last packet time, last address,
\* session id, last acknowledged grids, pending update) unchanged, and a step
\* of the detection/dispatch loop leaves the current position and the current
\* grid unchanged.
C22_DisjointWriters ==
    [][ /\ gps_pc' # gps_pc => UNCHANGED <<commVars, appVars>>
        /\ pc' # pc => UNCHANGED <<current_position, current_grid>> ]_vars

\* both writers have acted: the GPS thread sleeps after storing a grid that
\* differs from the one the dispatch loop has had acknowledged by both
\* applications
C22_Witness ==
    /\ gps_pc = "sleep"
    /\ current_grid = "JN58"
    /\ wsjtx_last_grid = "JJ00" /\ js8call_last_grid = "JJ00"
    /\ wsjtx_id # None /\ wsjtx_last_addr # None
    /\ wsjtx_last_packet_time # NoTime

\* C23: once the running flag is cleared, each loop finishes the iteration
\* it is in (the GPS thread goes from its read to its sleep and from its
\* sleep to its loop test, the main loop goes on to its loop test), starts
\* no further iteration and ends at its loop test; the join in stop() ends
\* whether or not the thread has ended, and stop() then completes.
C23_CooperativeTermination ==
    [][ /\ (~gps_running /\ gps_pc' # gps_pc) =>
              \/ gps_pc = "read" /\ gps_pc' \in {"sleep", "backoff"}
              \/ gps_pc \in {"sleep", "backoff"} /\ gps_pc' = "poll"
              \/ gps_pc = "poll" /\ gps_pc' \in {"exited", "killed"}
        /\ (~running /\ pc' # pc) =>
              /\ pc = "recv" => pc' = "exited"
              /\ pc' = "exited" => pc = "recv"
        /\ (stop_pc = "joining" /\ stop_pc' # stop_pc) => stop_pc' = "closing"
        /\ (stop_pc = "closing" /\ stop_pc' # stop_pc) => stop_pc' = "done"
      ]_vars

\* C24: the sentence parser is total: for every line (empty, blank, not
\* starting with "$", too few fields, malformed coordinates, malformed time,
\* unknown type) it returns a (lat, lon) position or None; no exception
\* leaves it.
C24_ParserTotal ==
    call.fn = "parse_nmea_sentence" =>
        \/ ret = NoResult
        \/ /\ ret.kind = "position"
           /\ ret.lat \in Int /\ ret.lon \in Int

\* a GLL sentence with status A whose latitude has only two characters
\* before the point was parsed, and gave None
C24_Witness ==
    /\ call.fn = "parse_nmea_sentence"
    /\ call.sentence = join(GllParts(GP, LatShort, TimeGood, <<"A">>))
    /\ convert_nmea_coord(LatShort, N) = Raised
    /\ ret = NoResult

\* the type of a sentence without its talker, and what its status field says
SentenceKind(parts) ==
    IF Len(parts[1]) < 3 THEN <<>> ELSE from(parts[1], Len(parts[1]) - 3)
NoFix(parts) ==
    \/ SentenceKind(parts) = GLL /\ Len(parts) >= 7 /\ P(parts, 6) = <<"V">>
    \/ SentenceKind(parts) = GGA /\ Len(parts) >= 7 /\ P(parts, 6) = <<"0">>
    \/ SentenceKind(parts) = RMC /\ Len(parts) >= 3 /\ P(parts, 2) = <<"V">>
    \/ SentenceKind(parts) = GNS /\ Len(parts) >= 7
          /\ P(parts, 6) # <<>>
          /\ \A i \in 1..Len(P(parts, 6)) : P(parts, 6)[i] = "N"

\* C25: a sentence whose status field (GLL, RMC), fix quality (GGA) or mode
\* indicator (GNS) says "no fix" parses to None, under every talker prefix,
\* even when its latitude and longitude fields are populated.
C25_NoFixNoPosition ==
    (call.fn = "parse_nmea_sentence" /\ call.sentence # <<>>
        /\ NoFix(split(strip(call.sentence))))
      => ret = NoResult

\* C26: the retained UTC time is replaced only by a time that parsed: a
\* sentence whose time field is empty or malformed leaves it as it was, so it
\* never goes back to "no time".
C26_TimeKeptOnBadField ==
    [][last_utc_time' # last_utc_time => last_utc_time' # NoUtc]_vars

\* a DDMM.MMM or DDDMM.MMM field: four or five digits, the point, digits
WellFormed(c) ==
    LET dot == find(c, ".")
    IN  /\ dot \in {4, 5}
        /\ Len(c) > dot + 1
        /\ AllDigits(upto(c, dot)) /\ AllDigits(from(c, dot + 1))

\* degrees + minutes / 60 of the number the field denotes, in 1/60000 degree:
\* the whole part is 100 * degrees + whole minutes
Expected(c) ==
    LET whole == digits_value(upto(c, find(c, ".")))
        frac == digits_value(SubSeq(from(c, find(c, ".") + 1) \o <<"0", "0", "0">>, 1, 3))
    IN  (whole \div 100) * 60000 + (whole % 100) * 1000 + frac

\* C27: a DDMM.MMM / DDDMM.MMM field converts to degrees + minutes / 60,
\* negative exactly for S and W (4807.038,N is 48 + 7.038/60; 01131.000,E is
\* 11 + 31/60); a field without a point, or with fewer than two characters
\* before it, fails.
C27_CoordConversion ==
    call.fn = "_convert_nmea_coord" =>
        LET c == call.coord_str
            d == call.direction
        IN  /\ (WellFormed(c) /\ d # <<>>) =>
                  ret = Number(IF d \in {<<"S">>, <<"W">>}
                               THEN -Expected(c) ELSE Expected(c))
            /\ (c = LatGood /\ d = <<"N">>) => ret = Number(48 * 60000 + 7038)
            /\ (c = LonGood /\ d = <<"E">>) => ret = Number(11 * 60000 + 31000)
            /\ find(c, ".") < 2 => ret = Raised

\* 01131.000,W was converted to -(11 + 31/60), and before it a field failed
C27_Witness ==
    /\ call.fn = "_convert_nmea_coord"
    /\ call.coord_str = LonGood /\ call.direction = <<"W">>
    /\ ret = Number(-691000)

UpperLetters == {"A", "B", "C", "D", "E", "F", "G", "H", "I", "J", "K", "L",
                 "M", "N", "O", "P", "Q", "R", "S", "T", "U", "V", "W", "X"}
LowerLetters == {"a", "b", "c", "d", "e", "f", "g", "h", "i", "j", "k", "l",
                 "m", "n", "o", "p", "q", "r", "s", "t", "u", "v", "w", "x"}
Digits == { ToString(n) : n \in 0..9 }

\* C28: for every latitude in [-90, 90] and longitude in [-180, 180], ends
\* included, the converter returns 4 characters, two of A-X and two digits,
\* at precision 4, and these followed by two of a-x at precision 6; every
\* alphabet index is within 0..23.
C28_GridShape ==
    (call.fn = "lat_lon_to_grid" /\ InRange(call.lat, call.lon)
        /\ call.precision \in {4, 6}) =>
        LET ix == grid_indices(call.lat, call.lon)
        IN  /\ ret.kind = "grid"
            /\ ret = to_grid(call.lat, call.lon, call.precision)
            /\ Len(ret.chars) = call.precision
            /\ Len(ret.text) = call.precision
            /\ ret.chars[1] \in UpperLetters /\ ret.chars[2] \in UpperLetters
            /\ ret.chars[3] \in Digits /\ ret.chars[4] \in Digits
            /\ call.precision = 6 =>
                  ret.chars[5] \in LowerLetters /\ ret.chars[6] \in LowerLetters
            /\ \A i \in {ix.lon_sq, ix.lat_sq, ix.lon_subsq, ix.lat_subsq} :
                  i \in 0..23

\* the converter of precision 6 was called at both upper ends of the range
C28_Witness ==
    /\ call.fn = "lat_lon_to_grid"
    /\ call.lat = 9000 /\ call.lon = 18000 /\ call.precision = 6
    /\ ret.kind = "grid" /\ Len(ret.text) = 6

\* the place of a letter in its alphabet
Place(alphabet, c) == CHOOSE i \in 0..23 : alphabet[i + 1] = c

\* C29: the converter truncates: the field letters are the cells of 20 and
\* 10 degrees that lon + 180 and lat + 90 fall in, the digits the cells of 2
\* and 1 degrees within the field, a coordinate on a cell edge belonging to
\* the cell that starts there; 0, 0 gives JJ00 and 89.99, 179.99 gives RR99.
C29_Truncation ==
    (call.fn = "lat_lon_to_grid" /\ InRange(call.lat, call.lon)) =>
        LET x == call.lon + 18000
            y == call.lat + 9000
            f1 == Place(upper, ret.chars[1])
            f2 == Place(upper, ret.chars[2])
            d1 == CHOOSE n \in 0..9 : ToString(n) = ret.chars[3]
            d2 == CHOOSE n \in 0..9 : ToString(n) = ret.chars[4]
        IN  /\ 2000 * f1 <= x /\ x < 2000 * (f1 + 1)
            /\ 1000 * f2 <= y /\ y < 1000 * (f2 + 1)
            /\ 200 * d1 <= x - 2000 * f1 /\ x - 2000 * f1 < 200 * (d1 + 1)
            /\ 100 * d2 <= y - 1000 * f2 /\ y - 1000 * f2 < 100 * (d2 + 1)
            /\ (call.lat = 0 /\ call.lon = 0 /\ call.precision = 4)
                  => ret.text = "JJ00"
            /\ (call.lat = 8999 /\ call.lon = 17999 /\ call.precision = 4)
                  => ret.text = "RR99"

\* the converter was called on the edge between two squares (lat 10.00,
\* lon 2.00) and gave the square that starts there
C29_Witness ==
    /\ call.fn = "lat_lon_to_grid"
    /\ call.lat = 1000 /\ call.lon = 200 /\ call.precision = 4
    /\ ret.kind = "grid" /\ ret.text = "JK10"

\* C30: outside [-90, 90] for the latitude or [-180, 180] for the longitude
\* the converter raises its range error and gives no grid.
C30_RangeError ==
    (call.fn = "lat_lon_to_grid"
        /\ (call.lat < -9000 \/ call.lat > 9000
              \/ call.lon < -18000 \/ call.lon > 18000))
      => ret = [kind |-> "raised", exc |-> "ValueError"]

\* the converter was called with a valid latitude and the longitude 180.01
C30_Witness ==
    /\ call.fn = "lat_lon_to_grid"
    /\ call.lat = 4812 /\ call.lon = 18001
    /\ ret.kind = "raised"

\* C31: a converter built with a precision other than 4 or 6 reports an
\* error when asked for a grid; it returns no grid.
C31_PrecisionChecked ==
    (call.fn = "lat_lon_to_grid" /\ call.precision \notin {4, 6})
      => ret.kind = "raised"

\* C39: for every latitude in [-90, 90] and longitude in [-180, 180], both
\* ends included, the two field letters of the grid are among A..R: the
\* field indices are at most 17.
C39_FieldWithinAtoR ==
    (call.fn = "lat_lon_to_grid" /\ InRange(call.lat, call.lon)) =>
        /\ ret.kind = "grid"
        /\ ret.chars[1] \in { upper[i] : i \in 1..18 }
        /\ ret.chars[2] \in { upper[i] : i \in 1..18 }
        /\ grid_indices(call.lat, call.lon).lon_sq <= 17
        /\ grid_indices(call.lat, call.lon).lat_sq <= 17

\* C32: after any sequence of GPS polls the stored position is absent, or
\* its latitude is in [-90, 90] and its longitude in [-180, 180].
C32_StoredPositionInRange ==
    current_position # NoPosition
      => InRange(current_position[1], current_position[2])

\* C37: a handler call that leaves an out-of-range position stored leaves
\* the current grid as it was, sends nothing and changes nothing the sends
\* depend on, and ends with the worker at one of its waits, from which the
\* next poll follows.
C37_BadFixIsHarmless ==
    [][ (/\ gps_pc = "read" /\ gps_pc' # "read"
         /\ current_position' # NoPosition
         /\ ~InRange(current_position'[1], current_position'[2]))
        => /\ current_grid' = current_grid
           /\ wire' = wire
           /\ UNCHANGED <<commVars, appVars>>
           /\ gps_pc' \in {"sleep", "backoff"} ]_vars

\* an out-of-range fix arrived after a grid had been computed: the position
\* is the new one, the grid the old one, the worker waits for its next poll
C37_Witness ==
    /\ current_position = <<9100, 0>>
    /\ current_grid = lat_lon_to_grid(4812, 1152)
    /\ gps_pc = "sleep"

\* C33: a send to JS8Call whose connect and send succeeded returns success
\* and records the grid as acknowledged, whatever the receive does: data,
\* a timeout, a closed connection or a receive error.
C33_ResponseNotRequired ==
    (call.fn = "send_js8call_grid_update"
        /\ call.outcome \in {"response", "timeout", "closed", "recv_error"})
      => ret.ok /\ js8call_last_grid = call.grid

\* C34: when ApplicationCommunicator.start could not create or bind one of
\* its listening sockets, the program ends and the loop that receives and
\* dispatches is never entered.
C34_StartFailureIsFatal ==
    [][ (pc = "start" /\ pc' # "start" /\ socket' # BothBound)
          => pc' = "exited" /\ ~running' ]_vars

\* C35: a call of check_heartbeats made while the WSJT-X process runs and
\* the last heartbeat or status packet is less than detection_timeout old
\* reports WSJT-X as detected, whether or not a packet arrived in it.
C35_LiveBetweenHeartbeats ==
    [][ (/\ pc = "process" /\ pc' = "dispatch"
         /\ procs.wsjtx
         /\ wsjtx_last_packet_time' # NoTime
         /\ now - wsjtx_last_packet_time' < detection_timeout)
        => wsjtx_running' ]_vars

\* C36: every send of a location packet to WSJT-X, on the pending path and
\* on the steady-state path, happens in a cycle whose process check finds
\* WSJT-X running.
C36_SendOnlyWhenProcessRuns ==
    [][ (cycle'.n_wsjtx = cycle.n_wsjtx + 1 /\ wire'.app = "wsjtx" /\ wire'.ok)
          => IF pc = "process" THEN procs.wsjtx ELSE wsjtx_running ]_vars

\* C38: as long as no grid has been computed, no send has been attempted to
\* either application, no grid is recorded as acknowledged and no pending
\* update is armed, whatever was detected; an armed pending update holds a
\* grid.
C38_NoGridNoSend ==
    /\ current_grid = None =>
          /\ wire = NoSend
          /\ cycle.tried = {} /\ cycle.n_wsjtx = 0 /\ cycle.n_js8call = 0
          /\ wsjtx_last_grid = None /\ js8call_last_grid = None
          /\ ~wsjtx_pending_grid_update
    /\ wsjtx_pending_grid_update => pending_grid_value # None

\* both applications were just detected while no grid is known: the main
\* loop has passed its edge handling without arming or sending anything
C38_Witness ==
    /\ pc = "state"
    /\ current_grid = None
    /\ wsjtx_running /\ ~prev_wsjtx_detected
    /\ js8call_running /\ ~prev_js8call_detected
    /\ ~wsjtx_pending_grid_update
    /\ cycle.n_js8call = 0

====
